---------------------------- MODULE Spec2Model ----------------------------
(***************************************************************************)
(* A model of pyathenajdbc/sqlalchemy_athena.py: the AthenaDialect methods *)
(* create_connect_args, get_schema_names, get_table_names, has_table and   *)
(* get_columns.                                                            *)
(*                                                                         *)
(* Text is a sequence of one-character strings, so that upper(), strip(),  *)
(* endswith(), split(), re.sub() and re.search() are computed character by *)
(* character as Python computes them.  Python's None is the value None     *)
(* below, which is no text.  The alphabet of the inputs has no line break: *)
(* a row of SHOW CREATE TABLE is one line, and a host has none.            *)
(*                                                                         *)
(* The methods decorated with @reflection.cache are modelled as called     *)
(* without an info_cache keyword, where the decorator calls the method.    *)
(***************************************************************************)
EXTENDS Integers, Sequences, FiniteSets, TLC

\* ------------------------------------------------------------------ text

None == <<"<None>">>

EmptyStr == <<>>

\* Python truthiness of a str-or-None value: None and '' are false.
Truthy(x) == x # None /\ x # EmptyStr

LowerLetters ==
    <<"a", "b", "c", "d", "e", "f", "g", "h", "i", "j", "k", "l", "m",
      "n", "o", "p", "q", "r", "s", "t", "u", "v", "w", "x", "y", "z">>

UpperLetters ==
    <<"A", "B", "C", "D", "E", "F", "G", "H", "I", "J", "K", "L", "M",
      "N", "O", "P", "Q", "R", "S", "T", "U", "V", "W", "X", "Y", "Z">>

Digits == {"0", "1", "2", "3", "4", "5", "6", "7", "8", "9"}

\* The characters str.strip() removes and \s matches.
Whitespace == {" ", "\t"}

Range(s) == {s[i] : i \in 1..Len(s)}

Min(S) == CHOOSE x \in S : \A y \in S : x <= y

Max(S) == CHOOSE x \in S : \A y \in S : x >= y

UpperChar(c) ==
    IF \E i \in 1..Len(LowerLetters) : LowerLetters[i] = c
    THEN UpperLetters[CHOOSE i \in 1..Len(LowerLetters) : LowerLetters[i] = c]
    ELSE c

LowerChar(c) ==
    IF \E i \in 1..Len(UpperLetters) : UpperLetters[i] = c
    THEN LowerLetters[CHOOSE i \in 1..Len(UpperLetters) : UpperLetters[i] = c]
    ELSE c

\* str.upper() and str.lower()
RECURSIVE upper(_)
upper(s) == IF s = <<>> THEN <<>> ELSE <<UpperChar(Head(s))>> \o upper(Tail(s))

RECURSIVE lower(_)
lower(s) == IF s = <<>> THEN <<>> ELSE <<LowerChar(Head(s))>> \o lower(Tail(s))

\* str.strip(): the text between the first and the last non-whitespace
\* character, '' when there is none.
strip(s) ==
    LET keep == {i \in 1..Len(s) : s[i] \notin Whitespace}
    IN  IF keep = {} THEN EmptyStr ELSE SubSeq(s, Min(keep), Max(keep))

\* str.endswith(c) for a one-character c
endswith(s, c) == Len(s) >= 1 /\ s[Len(s)] = c

\* The positions where sub occurs in s.
Occurrences(s, sub) ==
    {k \in 1..(Len(s) - Len(sub) + 1) : SubSeq(s, k, k + Len(sub) - 1) = sub}

\* sub in s
Contains(s, sub) == Occurrences(s, sub) # {}

\* str.split(sep): the pieces between the occurrences of sep, found from
\* the left and not overlapping.
RECURSIVE split(_, _)
split(s, sep) ==
    IF ~Contains(s, sep)
    THEN <<s>>
    ELSE LET k == Min(Occurrences(s, sep))
         IN  <<SubSeq(s, 1, k - 1)>>
                 \o split(SubSeq(s, k + Len(sep), Len(s)), sep)

\* str.format() of a str-or-None argument: None is rendered as 'None'.
Format(x) == IF x = None THEN <<"N", "o", "n", "e">> ELSE x

\* dict.get(k, default)
dict_get(d, k, default) == IF k \in DOMAIN d THEN d[k] ELSE default

\* d.update(e): the keys of both, e's value where both have the key.
dict_update(d, e) ==
    [k \in DOMAIN d \cup DOMAIN e |-> IF k \in DOMAIN e THEN e[k] ELSE d[k]]

\* How a call ends: it returns a value or raises an error.
NoError == ""

Return(v) == [status |-> "return", value |-> v, error |-> NoError]

Raise(e) == [status |-> "raise", value |-> None, error |-> e]

NoOutcome == [status |-> "none", value |-> None, error |-> NoError]

\* ------------------------------------------------- create_connect_args

Txt_default == <<"d", "e", "f", "a", "u", "l", "t">>

HostPrefix == <<"a", "t", "h", "e", "n", "a", ".">>

HostSuffix ==
    <<".", "a", "m", "a", "z", "o", "n", "a", "w", "s", ".", "c", "o", "m">>

\* The character class [a-z0-9-]
RegionChars == Range(LowerLetters) \cup Digits \cup {"-"}

\* Whether ^athena\.([a-z0-9-]+)\.amazonaws\.com$ matches host.  The class
\* has no '.', so the group is the whole text between the two literals.
RegionPatternMatches(host) ==
    /\ Len(host) >= Len(HostPrefix) + 1 + Len(HostSuffix)
    /\ SubSeq(host, 1, Len(HostPrefix)) = HostPrefix
    /\ SubSeq(host, Len(host) - Len(HostSuffix) + 1, Len(host)) = HostSuffix
    /\ \A i \in (Len(HostPrefix) + 1)..(Len(host) - Len(HostSuffix)) :
           host[i] \in RegionChars

\* A substitution that replaces nothing: the host as it is.
RegionSubKeepHost(host) == host

\* re.sub(r'^athena\.([a-z0-9-]+)\.amazonaws\.com$', r'\1', host): group 1
\* when the pattern matches, host unchanged when it does not.
re_sub_region(host) ==
    IF RegionPatternMatches(host)
    THEN SubSeq(host, Len(HostPrefix) + 1, Len(host) - Len(HostSuffix))
    ELSE host

\* The four derived options, before the query parameters are applied.
derived_opts(url) ==
    [k \in {"access_key", "secret_key", "region_name", "schema_name"} |->
        CASE k = "access_key" -> url.username
          [] k = "secret_key" -> url.password
          [] k = "region_name" -> re_sub_region(url.host)
          [] k = "schema_name" ->
                 IF Truthy(url.database) THEN url.database ELSE Txt_default]

\* An update in the wrong order: a derived value survives a query parameter
\* of its name.
UpdateKeepsDerived(opts, query) ==
    [k \in DOMAIN opts \cup DOMAIN query |->
        IF k \in DOMAIN opts THEN opts[k] ELSE query[k]]

\* opts.update(url.query)
apply_query(opts, query) == dict_update(opts, query)

\* create_connect_args(url).  re.sub raises TypeError for a host of None.
create_connect_args(url) ==
    IF url.host = None
    THEN Raise("TypeError")
    ELSE Return(<< <<>>, apply_query(derived_opts(url), url.query) >>)

\* The URLs create_connect_args is called with.
Region_us_east_1 == <<"u", "s", "-", "e", "a", "s", "t", "-", "1">>

Region_eu_west_2 == <<"e", "u", "-", "w", "e", "s", "t", "-", "2">>

Region_upper == <<"U", "S", "-", "W", "E", "S", "T", "-", "2">>

Host_china ==
    HostPrefix \o <<"c", "n", "-", "n", "o", "r", "t", "h", "-", "1">>
        \o HostSuffix \o <<".", "c", "n">>

Host_localhost == <<"l", "o", "c", "a", "l", "h", "o", "s", "t">>

Hosts ==
    { HostPrefix \o Region_us_east_1 \o HostSuffix,
      HostPrefix \o Region_eu_west_2 \o HostSuffix,
      HostPrefix \o Region_upper \o HostSuffix,
      Host_china, Host_localhost, None }

Txt_sales == <<"s", "a", "l", "e", "s">>

Txt_akia == <<"A", "K", "I", "A">>

Txt_secret == <<"s", "3", "c", "r", "3", "t">>

Txt_s3 == <<"s", "3", ":", "/", "/", "b", "/">>

Usernames == {None, Txt_akia}

Passwords == {None, Txt_secret}

Databases == {None, EmptyStr, Txt_sales}

QueryKeys ==
    {"s3_staging_dir", "access_key", "secret_key", "region_name", "schema_name"}

QueryValues == {Txt_s3, Region_eu_west_2}

\* url.query: a mapping of some of the keys to values.
UrlQueries == UNION {[ks -> QueryValues] : ks \in SUBSET QueryKeys}

Urls ==
    [username : Usernames, password : Passwords, host : Hosts,
     database : Databases, query : UrlQueries]

\* ------------------------------- the connection and the catalog queries

\* The errors connection.execute(query).fetchall() may raise.
Errors == {"OperationalError", "DatabaseError"}

\* What the connection does with the one query it is given: the rows that
\* fetchall() returns, or the error that execute() or fetchall() raises.
Rows(rows) == [ok |-> TRUE, rows |-> rows, error |-> NoError]

Fails(e) == [ok |-> FALSE, rows |-> <<>>, error |-> e]

\* The statements, as their template and the arguments of format().
SchemataQuery ==
    [stmt |-> "SELECT schema_name FROM information_schema.schemata WHERE schema_name NOT IN ('information_schema')",
     args |-> <<>>]

TablesQuery(schema) ==
    [stmt |-> "SELECT table_name FROM information_schema.tables WHERE table_schema = '{0}'",
     args |-> <<Format(schema)>>]

ShowCreateTableQuery(schema, table_name) ==
    [stmt |-> "SHOW CREATE TABLE {}.{}",
     args |-> <<Format(schema), Format(table_name)>>]

\* What a method did: the queries it executed on the connection, in order,
\* and how it ended.
Done(queries, outcome) == [queries |-> queries, outcome |-> outcome]

\* connection.execute(query).fetchall(): the method goes on to return value
\* when the rows arrive, and ends with the connection's error otherwise.
Execute(query, reply, value) ==
    Done(<<query>>, IF reply.ok THEN Return(value) ELSE Raise(reply.error))

\* schema if schema else connection.connection.schema_name
effective_schema(connection, schema) ==
    IF Truthy(schema) THEN schema ELSE connection.schema_name

\* [row.schema_name for row in connection.execute(query).fetchall()]
get_schema_names(connection, reply) ==
    Execute(SchemataQuery, reply,
            [i \in 1..Len(reply.rows) |-> reply.rows[i].schema_name])

\* [row.table_name for row in connection.execute(query).fetchall()]
get_table_names(connection, schema, reply) ==
    Execute(TablesQuery(effective_schema(connection, schema)), reply,
            [i \in 1..Len(reply.rows) |-> reply.rows[i].table_name])

\* A has_table that swallows the error of the listing: it executes the
\* query again and answers false.
HasTableRetries(connection, table_name, schema, reply) ==
    LET listed == get_table_names(connection, schema, reply)
    IN  IF listed.outcome.status = "raise"
        THEN Done(listed.queries \o listed.queries, Return(FALSE))
        ELSE Done(listed.queries,
                  Return(table_name \in Range(listed.outcome.value)))

\* A has_table that compares the names without regard to case.
HasTableIgnoresCase(connection, table_name, schema, reply) ==
    LET listed == get_table_names(connection, schema, reply)
    IN  IF listed.outcome.status = "raise"
        THEN listed
        ELSE Done(listed.queries,
                  Return(\E n \in Range(listed.outcome.value) :
                             lower(n) = lower(table_name)))

\* has_table: get_table_names, then table_name in table_names.
has_table(connection, table_name, schema, reply) ==
    LET listed == get_table_names(connection, schema, reply)
    IN  IF listed.outcome.status = "raise"
        THEN listed
        ELSE Done(listed.queries,
                  Return(table_name \in Range(listed.outcome.value)))

\* The connections, arguments and replies the methods are called with.
Txt_orders == <<"o", "r", "d", "e", "r", "s">>

Txt_Orders == <<"O", "r", "d", "e", "r", "s">>

Txt_events == <<"e", "v", "e", "n", "t", "s">>

Connections == [schema_name : {None, Txt_default, Txt_sales}]

SchemaArgs == {None, EmptyStr, Txt_default}

TableNameArgs == {Txt_orders, Txt_Orders}

SchemaReplies ==
    {Rows(<<>>), Rows(<<[schema_name |-> Txt_default]>>),
     Rows(<<[schema_name |-> Txt_default], [schema_name |-> Txt_sales]>>)}
        \cup {Fails(e) : e \in Errors}

TableReplies ==
    {Rows(<<>>), Rows(<<[table_name |-> Txt_orders]>>),
     Rows(<<[table_name |-> Txt_Orders], [table_name |-> Txt_events]>>),
     Rows(<<[table_name |-> Txt_events], [table_name |-> Txt_orders]>>)}
        \cup {Fails(e) : e \in Errors}

\* ----------------------------------------------------------- the type map

Tok_DOUBLE == <<"D", "O", "U", "B", "L", "E">>

Tok_SMALLINT == <<"S", "M", "A", "L", "L", "I", "N", "T">>

Tok_BOOLEAN == <<"B", "O", "O", "L", "E", "A", "N">>

Tok_INTEGER == <<"I", "N", "T", "E", "G", "E", "R">>

Tok_VARCHAR == <<"V", "A", "R", "C", "H", "A", "R">>

Tok_TINYINT == <<"T", "I", "N", "Y", "I", "N", "T">>

Tok_DECIMAL == <<"D", "E", "C", "I", "M", "A", "L">>

Tok_ARRAY == <<"A", "R", "R", "A", "Y">>

Tok_ROW == <<"R", "O", "W">>

Tok_VARBINARY == <<"V", "A", "R", "B", "I", "N", "A", "R", "Y">>

Tok_MAP == <<"M", "A", "P">>

Tok_BIGINT == <<"B", "I", "G", "I", "N", "T">>

Tok_DATE == <<"D", "A", "T", "E">>

Tok_TIMESTAMP == <<"T", "I", "M", "E", "S", "T", "A", "M", "P">>

Tok_STRING == <<"S", "T", "R", "I", "N", "G">>

\* _TYPE_MAPPINGS: the type descriptors are named as sqlalchemy names them.
TYPE_MAPPINGS ==
    (Tok_DOUBLE :> "FLOAT") @@
    (Tok_SMALLINT :> "INTEGER") @@
    (Tok_BOOLEAN :> "BOOLEAN") @@
    (Tok_INTEGER :> "INTEGER") @@
    (Tok_VARCHAR :> "STRINGTYPE") @@
    (Tok_TINYINT :> "INTEGER") @@
    (Tok_DECIMAL :> "DECIMAL") @@
    (Tok_ARRAY :> "STRINGTYPE") @@
    (Tok_ROW :> "STRINGTYPE") @@
    (Tok_VARBINARY :> "BINARY") @@
    (Tok_MAP :> "STRINGTYPE") @@
    (Tok_BIGINT :> "BIGINT") @@
    (Tok_DATE :> "DATE") @@
    (Tok_TIMESTAMP :> "TIMESTAMP") @@
    (Tok_STRING :> "STRINGTYPE")

NULLTYPE == "NULLTYPE"

\* A lookup whose default is the string descriptor.
ResolveUnknownAsString(token) == dict_get(TYPE_MAPPINGS, token, "STRINGTYPE")

\* _TYPE_MAPPINGS.get(token, NULLTYPE)
resolve(token) == dict_get(TYPE_MAPPINGS, token, NULLTYPE)

\* ------------------------------------------------------------ get_columns

\* The backquote character (U+0060), which a string of this language cannot
\* hold: the one text element that is not written as itself.
BQ == "BACKQUOTE"

COMMENT == <<"C", "O", "M", "M", "E", "N", "T">>

NoMatch == [matched |-> FALSE, group1 |-> None, group2 |-> None]

\* The closing backticks a match that opens at s may end group 1 with: one
\* character or more after s, whitespace next, and a character left for
\* group 2 after that.
Closers(text, s) ==
    {e \in (s + 2)..(Len(text) - 2) :
        text[e] = BQ /\ text[e + 1] \in Whitespace}

\* re.search of the column pattern (line 141): a backtick, (.+), a
\* backtick, \s+, (.+), \s*.  The match opens at the first
\* backtick that has a closer; the greedy group 1 ends at the last closer;
\* the greedy \s+ takes the whitespace that follows but leaves group 2 a
\* character; the greedy group 2 takes the rest of the line.
re_search_column(text) ==
    LET starts == {s \in 1..Len(text) : text[s] = BQ /\ Closers(text, s) # {}}
    IN  IF starts = {}
        THEN NoMatch
        ELSE LET s == Min(starts)
                 e == Max(Closers(text, s))
                 solid == {j \in (e + 2)..Len(text) : text[j] \notin Whitespace}
                 g == IF solid = {} THEN Len(text) ELSE Min(solid)
             IN  [matched |-> TRUE,
                  group1 |-> SubSeq(text, s + 1, e - 1),
                  group2 |-> SubSeq(text, g, Len(text))]

\* Lines 131-134: the line of the row r in upper case, stripped of the
\* whitespace around it, then of one closing ',' or ')'.
normalize(r) ==
    LET normal == strip(upper(r[1]))
    IN  IF endswith(normal, ",") \/ endswith(normal, ")")
        THEN SubSeq(normal, 1, Len(normal) - 1)
        ELSE normal

\* Lines 131-141: the locals row, row_comment and m for the row r.
parse_line(r) ==
    LET cut == normalize(r)
        row_split == split(cut, COMMENT)
        remainder == IF Contains(cut, COMMENT) THEN row_split[1] ELSE cut
    IN  [m |-> re_search_column(remainder),
         row |-> remainder,
         row_comment |-> IF Contains(cut, COMMENT)
                         THEN row_split[Len(row_split)]
                         ELSE None]

\* A loop body that increments ordinal before the pattern is tried: a row
\* that is no column consumes an ordinal.
LoopBodyCountsEveryRow(r, cols, ord, out) ==
    LET p == parse_line(r)
    IN  IF ~p.m.matched
        THEN [row |-> p.row, row_comment |-> p.row_comment, m |-> p.m,
              columns |-> cols, ordinal |-> ord + 1, stdout |-> out]
        ELSE [row |-> p.row, row_comment |-> p.row_comment, m |-> p.m,
              columns |-> Append(cols,
                  [name |-> lower(lower(p.m.group1)),
                   type |-> resolve(p.m.group2),
                   ordinal_position |-> ord + 1,
                   comment |-> p.row_comment,
                   nullable |-> None,
                   default |-> None]),
              ordinal |-> ord + 1,
              stdout |-> Append(out, p.m.group2)]

\* Lines 131-155: one iteration of the loop over res, from the columns, the
\* ordinal and the printed lines before it to those after it.
loop_body(r, cols, ord, out) ==
    LET p == parse_line(r)
    IN  IF ~p.m.matched
        THEN [row |-> p.row, row_comment |-> p.row_comment, m |-> p.m,
              columns |-> cols, ordinal |-> ord, stdout |-> out]
        ELSE [row |-> p.row, row_comment |-> p.row_comment, m |-> p.m,
              columns |-> Append(cols,
                  [name |-> lower(lower(p.m.group1)),
                   type |-> resolve(p.m.group2),
                   ordinal_position |-> ord + 1,
                   comment |-> p.row_comment,
                   nullable |-> None,
                   default |-> None]),
              ordinal |-> ord + 1,
              stdout |-> Append(out, p.m.group2)]

\* Lines 124-127: the query of get_columns and what the connection does
\* with it; the method goes on to the loop when the rows arrive.
get_columns_execute(connection, table_name, schema, reply) ==
    Done(<<ShowCreateTableQuery(effective_schema(connection, schema),
                                table_name)>>,
         IF reply.ok THEN NoOutcome ELSE Raise(reply.error))

\* The lines of SHOW CREATE TABLE that get_columns is given; BQ in a
\* comment stands for the backquote.
\* CREATE EXTERNAL TABLE BQ sales.t BQ (   (no column: no whitespace after the name)
Line_create == <<"C", "R", "E", "A", "T", "E", " ", "E", "X", "T", "E", "R", "N", "A", "L", " ", "T", "A", "B", "L", "E", " ", BQ, "s", "a", "l", "e", "s", ".", "t", BQ, "(">>

\* two spaces, BQ id BQ bigint, and a space
Line_id == <<" ", " ", BQ, "i", "d", BQ, " ", "b", "i", "g", "i", "n", "t", ",", " ">>

Txt_user_id == <<"u", "s", "e", "r", "_", "i", "d">>

Txt_primary == <<"'", "p", "r", "i", "m", "a", "r", "y", " ", "i", "d", "e", "n", "t", "i", "f", "i", "e", "r", "'">>

\* BQ user_id BQ BIGINT COMMENT 'primary identifier',
Line_user_id ==
    <<BQ>> \o Txt_user_id \o <<BQ, " ">> \o Tok_BIGINT \o <<" ">> \o COMMENT
        \o <<" ">> \o Txt_primary \o <<",">>

Txt_tags == <<"t", "a", "g", "s">>

\* BQ tags BQ ARRAY<STRING>
Line_tags == <<BQ>> \o Txt_tags \o <<BQ, " ">> \o Tok_ARRAY \o <<"<", "S", "T", "R", "I", "N", "G", ">">>

\* BQ tags BQ MAP<STRING,INT>
Line_map == <<BQ>> \o Txt_tags \o <<BQ, " ">> \o Tok_MAP \o <<"<", "S", "T", "R", "I", "N", "G", ",", "I", "N", "T", ">">>

\* BQ tags BQ ROW<A:INT>
Line_row == <<BQ>> \o Txt_tags \o <<BQ, " ">> \o Tok_ROW \o <<"<", "A", ":", "I", "N", "T", ">">>

\* BQ x BQ foo)
Line_foo == <<BQ, "x", BQ, " ", "f", "o", "o", ")">>

\* )
Line_close == <<")">>

\* BQ a BQ string COMMENT 'no comment'
Line_note == <<BQ, "a", BQ, " ", "s", "t", "r", "i", "n", "g", " ", "C", "O", "M", "M", "E", "N", "T", " ", "'", "n", "o", " ", "c", "o", "m", "m", "e", "n", "t", "'">>

\* BQ n BQ COMMENT 'c'   (a comment and no type)
Line_bare == <<BQ, "n", BQ, " ", "C", "O", "M", "M", "E", "N", "T", " ", "'", "c", "'">>

\* The lines a result of several rows is made of: two that are no column
\* and two that are one, of a type the map has and of a type it lacks.
SeveralLines == {Line_create, Line_id, Line_foo, Line_close}

\* The lines a result of one row holds.
SingleLines ==
    {Line_user_id, Line_tags, Line_map, Line_row, Line_note, Line_bare}

\* One line per type token: the keys of the type map and tokens it lacks.
TypeTokens ==
    DOMAIN TYPE_MAPPINGS
        \cup {<<"I", "N", "T">>,
              <<"D", "E", "C", "I", "M", "A", "L", "(", "1", "0", ",", "2", ")">>}

TypeLine(token) == <<BQ, "c", BQ, " ">> \o lower(token)

MaxLines == 3

\* A result of fetchall(): rows of one field, the line.
DDLResults ==
    UNION {[1..k -> {<<l>> : l \in SeveralLines}] : k \in 0..MaxLines}
        \cup {<< <<l>> >> : l \in SingleLines}
        \cup {<< <<TypeLine(tok)>> >> : tok \in TypeTokens}

DDLReplies == {Rows(rows) : rows \in DDLResults} \cup {Fails(e) : e \in Errors}

\* ------------------------------------------------------ the state machine

VARIABLES
    pc,           \* "idle" before the call, "get_columns_loop", then "done"
    call,         \* the method called last and its arguments
    reply,        \* what the connection did with the query of the call
    queries,      \* the queries the call executed on the connection, in order
    outcome,      \* how the call ended: what it returned or raised
    res,          \* get_columns: the rows fetched
    idx,          \* get_columns: the number of rows the loop has taken
    row,          \* get_columns: the local row after the last iteration
    row_comment,  \* get_columns: the local row_comment after it
    m,            \* get_columns: the local m after it
    columns,      \* get_columns: the records appended so far
    ordinal,      \* get_columns: the local ordinal
    stdout        \* get_columns: the raw types printed so far (line 146)

vars ==
    <<pc, call, reply, queries, outcome, res, idx, row, row_comment, m,
      columns, ordinal, stdout>>

Call(method, u, c, t, s) ==
    [op |-> method, url |-> u, connection |-> c, table_name |-> t,
     schema |-> s]

NoReply == Rows(<<>>)

\* The locals of get_columns before its loop (lines 127-129).
FreshLocals ==
    /\ idx' = 0
    /\ row' = None
    /\ row_comment' = None
    /\ m' = NoMatch
    /\ columns' = <<>>
    /\ ordinal' = 0
    /\ stdout' = <<>>

Init ==
    /\ pc = "idle"
    /\ call = Call("none", None, None, None, None)
    /\ reply = NoReply
    /\ queries = <<>>
    /\ outcome = NoOutcome
    /\ res = <<>>
    /\ idx = 0
    /\ row = None
    /\ row_comment = None
    /\ m = NoMatch
    /\ columns = <<>>
    /\ ordinal = 0
    /\ stdout = <<>>

\* A method that runs from call to return in one step.  The methods keep
\* nothing from one call to the next, so a behaviour is one call.
Runs(c, rp, done) ==
    /\ pc' = "done"
    /\ call' = c
    /\ reply' = rp
    /\ queries' = done.queries
    /\ outcome' = done.outcome
    /\ res' = <<>>
    /\ FreshLocals

CreateConnectArgs ==
    /\ pc = "idle"
    /\ \E url \in Urls :
        Runs(Call("create_connect_args", url, None, None, None), NoReply,
             Done(<<>>, create_connect_args(url)))

GetSchemaNames ==
    /\ pc = "idle"
    /\ \E connection \in Connections, rp \in SchemaReplies :
        Runs(Call("get_schema_names", None, connection, None, None), rp,
             get_schema_names(connection, rp))

GetTableNames ==
    /\ pc = "idle"
    /\ \E connection \in Connections, schema \in SchemaArgs,
       rp \in TableReplies :
        Runs(Call("get_table_names", None, connection, None, schema), rp,
             get_table_names(connection, schema, rp))

HasTable ==
    /\ pc = "idle"
    /\ \E connection \in Connections, table_name \in TableNameArgs,
       schema \in SchemaArgs, rp \in TableReplies :
        Runs(Call("has_table", None, connection, table_name, schema), rp,
             has_table(connection, table_name, schema, rp))

\* get_columns up to its loop: the query, and the rows or the error.
GetColumnsExecute ==
    /\ pc = "idle"
    /\ \E connection \in Connections, table_name \in TableNameArgs,
       schema \in SchemaArgs, rp \in DDLReplies :
        LET done == get_columns_execute(connection, table_name, schema, rp)
        IN  /\ pc' = IF rp.ok THEN "get_columns_loop" ELSE "done"
            /\ call' = Call("get_columns", None, connection, table_name, schema)
            /\ reply' = rp
            /\ queries' = done.queries
            /\ outcome' = done.outcome
            /\ res' = rp.rows
            /\ FreshLocals

\* One iteration of the loop, on the next row of res.
GetColumnsIterate ==
    /\ pc = "get_columns_loop"
    /\ idx < Len(res)
    /\ LET after == loop_body(res[idx + 1], columns, ordinal, stdout)
       IN  /\ row' = after.row
           /\ row_comment' = after.row_comment
           /\ m' = after.m
           /\ columns' = after.columns
           /\ ordinal' = after.ordinal
           /\ stdout' = after.stdout
    /\ idx' = idx + 1
    /\ UNCHANGED <<pc, call, reply, queries, outcome, res>>

\* return columns (line 157)
GetColumnsReturn ==
    /\ pc = "get_columns_loop"
    /\ idx = Len(res)
    /\ pc' = "done"
    /\ outcome' = Return(columns)
    /\ UNCHANGED <<call, reply, queries, res, idx, row, row_comment, m,
                   columns, ordinal, stdout>>

Next ==
    \/ CreateConnectArgs
    \/ GetSchemaNames
    \/ GetTableNames
    \/ HasTable
    \/ GetColumnsExecute
    \/ GetColumnsIterate
    \/ GetColumnsReturn

Spec == Init /\ [][Next]_vars

\* ---------------------------------------------------------------- claims

Last(s) == s[Len(s)]

InGetColumns == call.op = "get_columns"

\* The rows the loop has taken that matched the column pattern.
Matching == {j \in 1..idx : parse_line(res[j]).m.matched}

\* The k-th of them, in the order of the rows.
KthMatching(k) ==
    CHOOSE j \in Matching : Cardinality({i \in Matching : i <= j}) = k

\* C1: whatever rows get_columns is given, the records it has appended are
\* as many as the rows taken so far that matched the column pattern, the
\* k-th record is that of the k-th matching row and has ordinal_position k,
\* and the list returned is the list of records of all the rows.
C1_OrdinalsCountMatchingLines ==
    InGetColumns =>
        /\ Len(columns) = Cardinality(Matching)
        /\ \A k \in 1..Len(columns) :
               /\ columns[k].ordinal_position = k
               /\ columns[k].name
                      = lower(parse_line(res[KthMatching(k)]).m.group1)
        /\ outcome.status = "return" =>
               idx = Len(res) /\ outcome.value = columns

\* C1 witness: a returned list of two records from three rows, the middle
\* one no column.
C1_Witness ==
    /\ InGetColumns
    /\ outcome.status = "return"
    /\ Len(res) = 3
    /\ Matching = {1, 3}
    /\ Len(outcome.value) = 2
    /\ outcome.value[2].ordinal_position = 2

\* The descriptor the type table is documented to give each of its tokens.
Documented(token) ==
    CASE token \in {Tok_BIGINT} -> "BIGINT"
      [] token \in {Tok_SMALLINT, Tok_INTEGER, Tok_TINYINT} -> "INTEGER"
      [] token \in {Tok_DOUBLE} -> "FLOAT"
      [] token \in {Tok_DECIMAL} -> "DECIMAL"
      [] token \in {Tok_BOOLEAN} -> "BOOLEAN"
      [] token \in {Tok_VARBINARY} -> "BINARY"
      [] token \in {Tok_DATE} -> "DATE"
      [] token \in {Tok_TIMESTAMP} -> "TIMESTAMP"
      [] token \in {Tok_VARCHAR, Tok_STRING, Tok_ARRAY, Tok_ROW, Tok_MAP}
             -> "STRINGTYPE"

TableKeys ==
    {Tok_DOUBLE, Tok_SMALLINT, Tok_BOOLEAN, Tok_INTEGER, Tok_VARCHAR,
     Tok_TINYINT, Tok_DECIMAL, Tok_ARRAY, Tok_ROW, Tok_VARBINARY, Tok_MAP,
     Tok_BIGINT, Tok_DATE, Tok_TIMESTAMP, Tok_STRING}

\* The line: a quoted name, a space, a type token, a space, COMMENT, a
\* space, the comment text, and the tail.
CommentedLine(name, token, text, tail) ==
    <<BQ>> \o name \o <<BQ, " ">> \o token \o <<" ">> \o COMMENT \o <<" ">>
        \o text \o tail

\* C2: after the loop takes a row whose line is a quoted name, a type token
\* of the type table, a COMMENT clause and an optional comma, the pattern
\* has matched with that token as the raw type, and the record appended
\* has the descriptor of the token, the name in lower case and the comment
\* in upper case (here: the text after the word COMMENT).
C2_CommentedColumnKeepsItsType ==
    (InGetColumns /\ idx >= 1) =>
        \A token \in TableKeys, tail \in {<<>>, <<",">>} :
            res[idx][1] = CommentedLine(Txt_user_id, token, Txt_primary, tail)
            => /\ m.matched
               /\ m.group2 = token
               /\ Len(columns) >= 1
               /\ Last(columns).type = Documented(token)
               /\ Last(columns).name = lower(Txt_user_id)
               /\ Last(columns).comment = <<" ">> \o upper(Txt_primary)

\* C3: after the loop takes a row whose line is a quoted name and a raw
\* type that is ARRAY, MAP or ROW followed by type parameters, the record
\* appended has the string descriptor.
C3_ComplexTypeIsString ==
    (InGetColumns /\ idx >= 1) =>
        \A token \in {Tok_ARRAY, Tok_MAP, Tok_ROW} :
            (/\ Len(res[idx][1]) > Len(Txt_tags) + 3 + Len(token)
             /\ SubSeq(res[idx][1], 1, Len(Txt_tags) + 3 + Len(token))
                    = <<BQ>> \o Txt_tags \o <<BQ, " ">> \o token
             /\ res[idx][1][Len(Txt_tags) + 4 + Len(token)] = "<")
            => /\ m.matched
               /\ Len(columns) >= 1
               /\ Last(columns).type = "STRINGTYPE"

\* C4: every record get_columns appends has the descriptor the type table
\* documents for the raw type printed for it when the table has that token,
\* and the untyped sentinel when it has not; and a matching row of a token
\* the table lacks still gets its record, with the next ordinal.
C4_TypeResolutionIsTotal ==
    InGetColumns =>
        /\ Len(stdout) = Len(columns)
        /\ \A k \in 1..Len(columns) :
               /\ stdout[k] \in TableKeys
                      => columns[k].type = Documented(stdout[k])
               /\ stdout[k] \notin TableKeys => columns[k].type = "NULLTYPE"
        /\ (idx >= 1 /\ m.matched /\ m.group2 \notin TableKeys) =>
               /\ Len(columns) = Cardinality(Matching)
               /\ Last(columns).type = "NULLTYPE"
               /\ Last(columns).ordinal_position = Len(columns)

\* C4 witness: a returned list whose first record is of a token the table
\* has and whose second is of a token it lacks, with ordinal 2.
C4_Witness ==
    /\ InGetColumns
    /\ outcome.status = "return"
    /\ Len(outcome.value) = 2
    /\ stdout[1] = Tok_BIGINT
    /\ outcome.value[1].type = "BIGINT"
    /\ stdout[2] \notin TableKeys
    /\ outcome.value[2].type = "NULLTYPE"
    /\ outcome.value[2].ordinal_position = 2

InCreateConnectArgs == call.op = "create_connect_args"

\* A host of the form athena.<region>.amazonaws.com, and its <region>.
HasRegionForm(host) ==
    /\ host # None
    /\ Len(host) > Len(HostPrefix) + Len(HostSuffix)
    /\ SubSeq(host, 1, Len(HostPrefix)) = HostPrefix
    /\ SubSeq(host, Len(host) - Len(HostSuffix) + 1, Len(host)) = HostSuffix

RegionOf(host) ==
    SubSeq(host, Len(HostPrefix) + 1, Len(host) - Len(HostSuffix))

\* C5 as stated: for every URL whose host is athena.<region>.amazonaws.com,
\* whatever its other parts, the options returned have region_name equal to
\* <region>.
C5_RegionNameIsTheRegion_AsStated ==
    (InCreateConnectArgs /\ HasRegionForm(call.url.host)) =>
        /\ outcome.status = "return"
        /\ outcome.value[2]["region_name"] = RegionOf(call.url.host)

\* C5 as amended: for every URL whose host is athena.<region>.amazonaws.com
\* with <region> made of lower-case letters, digits and hyphens, and whose
\* query has no region_name parameter, the options returned have
\* region_name equal to <region>.
C5_RegionNameIsTheRegion ==
    (/\ InCreateConnectArgs
     /\ HasRegionForm(call.url.host)
     /\ Range(RegionOf(call.url.host)) \subseteq RegionChars
     /\ "region_name" \notin DOMAIN call.url.query) =>
        /\ outcome.status = "return"
        /\ outcome.value[2]["region_name"] = RegionOf(call.url.host)

\* C5 witness: the region of a URL with credentials, a database and other
\* query parameters.
C5_Witness ==
    /\ InCreateConnectArgs
    /\ call.url.host = HostPrefix \o Region_us_east_1 \o HostSuffix
    /\ call.url.username = Txt_akia
    /\ call.url.database = Txt_sales
    /\ DOMAIN call.url.query = {"s3_staging_dir", "schema_name"}
    /\ outcome.status = "return"
    /\ outcome.value[2]["region_name"] = Region_us_east_1

\* The schema the claim C6 resolves for a call.
ClaimedSchema(c) ==
    IF c.schema \notin {None, EmptyStr}
    THEN c.schema
    ELSE IF c.connection.schema_name # None
         THEN c.connection.schema_name
         ELSE Txt_default

\* C6: the query that get_table_names, has_table and get_columns issue
\* names the schema argument when one is given, else the schema_name of the
\* connection, else "default" when the connection has none.
C6_SchemaFallsBackToDefault ==
    (call.op \in {"get_table_names", "has_table", "get_columns"}) =>
        /\ Len(queries) = 1
        /\ queries[1].args[1] = ClaimedSchema(call)

\* C7: when the table listing arrives, has_table returns a truth value, and
\* returns true exactly when table_name is, character for character, one of
\* the names get_table_names returns for the same connection, schema and
\* listing; for an empty listing it returns false.
C7_HasTableIsMembership ==
    (call.op = "has_table" /\ reply.ok) =>
        LET listed == get_table_names(call.connection, call.schema, reply)
        IN  /\ outcome.status = "return"
            /\ outcome.value \in BOOLEAN
            /\ outcome.value
                   <=> (\E i \in 1..Len(listed.outcome.value) :
                            listed.outcome.value[i] = call.table_name)
            /\ queries = listed.queries
            /\ reply.rows = <<>> => outcome.value = FALSE

\* C7 witness: has_table returns false for orders when the listing has
\* Orders.
C7_Witness ==
    /\ call.op = "has_table"
    /\ call.table_name = Txt_orders
    /\ reply.ok
    /\ \E i \in 1..Len(reply.rows) : reply.rows[i].table_name = Txt_Orders
    /\ outcome = Return(FALSE)

\* C8: after the loop takes a row whose normalized line contains COMMENT,
\* row_comment is the text after the first COMMENT and row is the text
\* before it.
C8_SplitsAtFirstComment ==
    (InGetColumns /\ idx >= 1 /\ Contains(normalize(res[idx]), COMMENT)) =>
        LET line == normalize(res[idx])
            first == Min(Occurrences(line, COMMENT))
        IN  /\ row = SubSeq(line, 1, first - 1)
            /\ row_comment = SubSeq(line, first + Len(COMMENT), Len(line))

\* C9: a call of get_schema_names, get_table_names, has_table or
\* get_columns has executed one query at most; when the connection fails
\* that query, the call has ended, with the error of the connection, and
\* has executed nothing else.
C9_OneQueryAndFailurePropagates ==
    (call.op \in {"get_schema_names", "get_table_names", "has_table",
                  "get_columns"}) =>
        /\ Len(queries) <= 1
        /\ ~reply.ok =>
               /\ pc = "done"
               /\ Len(queries) = 1
               /\ outcome.status = "raise"
               /\ outcome.error = reply.error
               /\ outcome.value = None

\* C9 witness: has_table ended with the OperationalError of its one query.
C9_Witness ==
    /\ call.op = "has_table"
    /\ ~reply.ok
    /\ Len(queries) = 1
    /\ outcome.status = "raise"
    /\ outcome.error = "OperationalError"

\* C10: the options create_connect_args returns have the four derived keys
\* and every key of the query, and nothing else; a key of the query has the
\* value of the query, also when it is one of the four; one of the four
\* that the query lacks has the value derived from the URL.
C10_QueryOverridesDerived ==
    (InCreateConnectArgs /\ outcome.status = "return") =>
        LET opts == outcome.value[2]
            query == call.url.query
        IN  /\ DOMAIN opts
                   = {"access_key", "secret_key", "region_name", "schema_name"}
                         \cup DOMAIN query
            /\ \A k \in DOMAIN query : opts[k] = query[k]
            /\ "access_key" \notin DOMAIN query
                   => opts["access_key"] = call.url.username
            /\ "secret_key" \notin DOMAIN query
                   => opts["secret_key"] = call.url.password
            /\ "schema_name" \notin DOMAIN query
                   => opts["schema_name"]
                          = IF call.url.database \in {None, EmptyStr}
                            THEN Txt_default
                            ELSE call.url.database

\* C10 witness: a schema_name parameter replaces the "default" of a URL
\* without a database.
C10_Witness ==
    /\ InCreateConnectArgs
    /\ call.url.database = None
    /\ "schema_name" \in DOMAIN call.url.query
    /\ outcome.status = "return"
    /\ outcome.value[2]["schema_name"] = call.url.query["schema_name"]
    /\ outcome.value[2]["schema_name"] # Txt_default

=============================================================================
